---- MODULE Spec2Model ----
(***************************************************************************)
(* Resume optimizer backend: the span extractor and section classifier of *)
(* pdf_processor.py, the rewrite orchestrator of resume_optimizer.py, the   *)
(* PDF renderer, and the upload_resume, generate_updated_resume and         *)
(* download_resume endpoints of main.py with save_temp_file.                *)
(*                                                                         *)
(* A text (a Python str) is a finite sequence of tokens.  A token stands    *)
(* for a run of characters: a word, one space " ", or one comma ",".  The   *)
(* keywords searched by the classifier are single tokens.                   *)
(***************************************************************************)
EXTENDS Integers, Sequences, FiniteSets, TLC

VARIABLES
  \* process_text_sections: one call in progress
  cpc,                 \* "idle" | "open" | "done" | "loop" | "returned" | "raised" | "match" | "matched"
  section,             \* loop variable: the span last taken from sections
  nspans,              \* number of spans taken from sections so far
  current_section,
  current_font_size,   \* <<>> is None, <<n>> is the number n
  structured_content,
  \* ResumeOptimizer.optimize_resume: one call in progress
  opc,                 \* "idle" | "summary" | "experience" | "skills" | "returned" | "raised"
  resume_content,
  job_keywords,
  optimized_content,
  optimized_experiences,
  llm_log,             \* the calls of llm.complete so far: prompt and outcome
  exc,                 \* <<>> or <<e>>, the exception raised
  \* main.py: the temp directory and the request being served
  pc,                  \* "direct" | "extract" | "idle" | "optimizing" | "responded"
  nrequests,
  file_id,
  txt_files,           \* temp/<file_id>.txt
  pdf_files,           \* temp/<file_id>.pdf
  story,
  written,             \* the paths written while serving the request
  response,
  request,             \* the request being served, as the client sent it
  invoked,             \* the functions of utils/ called while serving it
  extracted_text       \* what extract_text_from_pdf returned to a direct call

cvars == <<cpc, section, nspans, current_section, current_font_size,
           structured_content>>

ovars == <<opc, resume_content, job_keywords, optimized_content,
           optimized_experiences, llm_log, exc>>

svars == <<pc, nrequests, file_id, txt_files, pdf_files, story, written,
           response>>

uvars == <<request, invoked, extracted_text>>

vars == <<cvars, ovars, svars, uvars>>

----------------------------------------------------------------------------
\* Bounds of the model

MaxTextLen == 2        \* tokens in one span text
MaxSpans == 2          \* spans in one call of process_text_sections

----------------------------------------------------------------------------
\* Texts

Space == " "

Words == {"EXPERIENCE", "Education", "skills", "SUMMARY", "Acme", Space}

FontSizes == {11, 16}

SeqsUpTo(S, n) == UNION {[1..k -> S] : k \in 0..n}

Texts == SeqsUpTo(Words, MaxTextLen)

\* str.upper(), token by token
UpperToken(c) ==
  CASE c = "Education" -> "EDUCATION"
    [] c = "skills" -> "SKILLS"
    [] c = "Acme" -> "ACME"
    [] OTHER -> c

Upper(t) == [i \in DOMAIN t |-> UpperToken(t[i])]

RECURSIVE LStrip(_)
LStrip(t) ==
  IF t = <<>> THEN <<>>
  ELSE IF Head(t) = Space THEN LStrip(Tail(t)) ELSE t

RECURSIVE RStrip(_)
RStrip(t) ==
  IF t = <<>> THEN <<>>
  ELSE IF t[Len(t)] = Space THEN RStrip(SubSeq(t, 1, Len(t) - 1)) ELSE t

\* str.strip()
Strip(t) == RStrip(LStrip(t))

\* keyword in text, for a keyword that is one token
Contains(t, kw) == \E i \in DOMAIN t : t[i] = kw

----------------------------------------------------------------------------
\* pdf_processor.process_text_sections

None == <<>>

NoSection == "none"

Sections == {"summary", "experience", "education", "skills"}

DocumentKeys == {"header", "summary", "experience", "education", "skills"}

EmptyDocument ==
  [header |-> <<>>, summary |-> <<>>, experience |-> <<>>,
   education |-> <<>>, skills |-> <<>>]

Spans == [text : Texts, font_size : FontSizes, is_bold : BOOLEAN]

NoSpan == [text |-> <<>>, font_size |-> 11, is_bold |-> FALSE]

\* a > b of Python: ordering a number against None raises TypeError
Greater(a, b) ==
  IF b = None THEN "TypeError"
  ELSE IF a > b[1] THEN "True" ELSE "False"

\* the header test with None read as the size 0
HeaderTestNoneAsZero(cfs, is_bold, font_size) ==
  IF ~is_bold THEN "False"
  ELSE Greater(font_size, IF cfs = None THEN <<0>> ELSE cfs)

\* the header test without its None guard
HeaderTestUnguarded(cfs, is_bold, font_size) ==
  IF ~is_bold THEN "False" ELSE Greater(font_size, cfs)

\* current_font_size is not None and section["is_bold"] and font_size > current_font_size
HeaderTest(cfs, is_bold, font_size) ==
  IF cfs = None THEN "False"
  ELSE IF ~is_bold THEN "False"
  ELSE Greater(font_size, cfs)

\* the if/elif chain with EDUCATION tested before EXPERIENCE
SelectSectionEducationFirst(text, cur) ==
  IF Contains(Upper(text), "EDUCATION") THEN "education"
  ELSE IF Contains(Upper(text), "EXPERIENCE") THEN "experience"
  ELSE IF Contains(Upper(text), "SKILLS") THEN "skills"
  ELSE IF Contains(Upper(text), "SUMMARY") THEN "summary"
  ELSE cur

\* the if/elif chain on text.upper()
SelectSection(text, cur) ==
  IF Contains(Upper(text), "EXPERIENCE") THEN "experience"
  ELSE IF Contains(Upper(text), "EDUCATION") THEN "education"
  ELSE IF Contains(Upper(text), "SKILLS") THEN "skills"
  ELSE IF Contains(Upper(text), "SUMMARY") THEN "summary"
  ELSE cur

\* content accumulation that files a span under summary when no section is active
AccumulateDefaultSummary(doc, cur, text) ==
  IF cur = "experience" THEN [doc EXCEPT !.experience = Append(@, text)]
  ELSE IF cur = "education" THEN [doc EXCEPT !.education = Append(@, text)]
  ELSE IF cur = "skills" THEN [doc EXCEPT !.skills = Append(@, text)]
  ELSE [doc EXCEPT !.summary = @ \o text \o <<Space>>]

\* if current_section: ... the content accumulation
Accumulate(doc, cur, text) ==
  IF cur = NoSection THEN doc
  ELSE IF cur = "experience" THEN [doc EXCEPT !.experience = Append(@, text)]
  ELSE IF cur = "education" THEN [doc EXCEPT !.education = Append(@, text)]
  ELSE IF cur = "skills" THEN [doc EXCEPT !.skills = Append(@, text)]
  ELSE IF cur = "summary" THEN [doc EXCEPT !.summary = @ \o text \o <<Space>>]
  ELSE doc

\* no call of process_text_sections in progress
ClassifierIdle ==
  /\ cpc = "idle"
  /\ section = NoSpan
  /\ nspans = 0
  /\ current_section = NoSection
  /\ current_font_size = None
  /\ structured_content = EmptyDocument

\* no call of ResumeOptimizer.optimize_resume in progress
OptimizerIdle ==
  /\ opc = "idle"
  /\ resume_content = EmptyDocument
  /\ job_keywords = <<>>
  /\ optimized_content = EmptyDocument
  /\ optimized_experiences = <<>>
  /\ llm_log = <<>>
  /\ exc = None

\* the functions are called directly, not through the endpoints
ServerOff ==
  /\ pc = "direct"
  /\ nrequests = 0
  /\ file_id = None
  /\ txt_files = <<>>
  /\ pdf_files = <<>>
  /\ story = <<>>
  /\ written = {}
  /\ response = None
  /\ request = None
  /\ invoked = {}
  /\ extracted_text = None

ClassifyInit ==
  /\ OptimizerIdle
  /\ ServerOff
  /\ cpc = "loop"
  /\ section = NoSpan
  /\ nspans = 0
  /\ current_section = NoSection
  /\ current_font_size = None
  /\ structured_content = EmptyDocument

\* one iteration of: for section in sections
ProcessSection ==
  /\ cpc = "loop"
  /\ nspans < MaxSpans
  /\ \E s \in Spans :
       LET text == Strip(s.text)
           font_size == s.font_size
           test == HeaderTest(current_font_size, s.is_bold, font_size)
           selected == IF test = "True"
                       THEN SelectSection(text, current_section)
                       ELSE current_section
       IN /\ section' = s
          /\ nspans' = nspans + 1
          /\ IF test = "TypeError"
             THEN /\ cpc' = "raised"
                  /\ UNCHANGED <<current_section, structured_content>>
             ELSE /\ cpc' = "loop"
                  /\ current_section' = selected
                  /\ structured_content' =
                       Accumulate(structured_content, selected, text)
  /\ UNCHANGED current_font_size
  /\ UNCHANGED <<ovars, svars, uvars>>

\* the end of sections: return structured_content
ReturnContent ==
  /\ cpc = "loop"
  /\ cpc' = "returned"
  /\ UNCHANGED <<section, nspans, current_section, current_font_size,
                 structured_content>>
  /\ UNCHANGED <<ovars, svars, uvars>>

ClassifyNext == ProcessSection \/ ReturnContent

SpecClassify == ClassifyInit /\ [][ClassifyNext]_vars

----------------------------------------------------------------------------
\* The header chain of process_text_sections as a function of the span text
\* and the section that is current when the chain is entered

HeaderInit ==
  /\ OptimizerIdle
  /\ ServerOff
  /\ cpc = "match"
  /\ section \in {s \in Spans : s.is_bold}
  /\ nspans = 0
  /\ current_section \in Sections \cup {NoSection}
  /\ current_font_size = None
  /\ structured_content = EmptyDocument

HeaderMatch ==
  /\ cpc = "match"
  /\ cpc' = "matched"
  /\ current_section' = SelectSection(Strip(section.text), current_section)
  /\ UNCHANGED <<section, nspans, current_font_size, structured_content>>
  /\ UNCHANGED <<ovars, svars, uvars>>

SpecHeader == HeaderInit /\ [][HeaderMatch]_vars

----------------------------------------------------------------------------
\* Properties of process_text_sections

\* the step just taken was an iteration of the loop that did not raise
Processed == cpc' = "loop" /\ nspans' = nspans + 1

\* C1: a span changes current_section only if a font size is recorded, the
\* span is bold and its size is strictly greater than the recorded size; a
\* span that is not bold, or is not larger, leaves current_section as it was
C1_HeaderOnlyIfRecordedBoldLarger ==
  [][(Processed /\ current_section' # current_section)
       => /\ current_font_size # None
          /\ section'.is_bold
          /\ section'.font_size > current_font_size[1]]_vars

\* a span that is not bold and names a section was processed and no section
\* became active
C1_Witness ==
  /\ cpc = "loop"
  /\ nspans >= 1
  /\ ~section.is_bold
  /\ Contains(Upper(Strip(section.text)), "EDUCATION")
  /\ current_section = NoSection

\* C2: after the first span no section is active and nothing has been
\* accumulated, whatever the span is
C2_FirstSpanNeverHeader ==
  nspans = 1 =>
    /\ current_section = NoSection
    /\ structured_content = EmptyDocument

\* the first span was bold, of the largest size and named a section
C2_Witness ==
  /\ cpc = "loop"
  /\ nspans = 1
  /\ section.is_bold
  /\ \A z \in FontSizes : section.font_size >= z
  /\ Contains(Upper(Strip(section.text)), "EXPERIENCE")
  /\ current_section = NoSection
  /\ structured_content = EmptyDocument

\* what one span adds to a section of the Document
Grown(doc, sec, text) ==
  IF sec = "summary" THEN doc[sec] \o text \o <<Space>>
  ELSE Append(doc[sec], text)

\* C3: every processed span is added to the active section and to no other
\* section, and to no section at all while none is active
C3_SpanInExactlyOneSection ==
  [][Processed =>
       /\ current_section' \in Sections \cup {NoSection}
       /\ structured_content'.header = structured_content.header
       /\ \A sec \in Sections :
            structured_content'[sec] =
              IF sec = current_section'
              THEN Grown(structured_content, sec, Strip(section'.text))
              ELSE structured_content[sec]]_vars

\* a span with text was processed while no section was active and the
\* Document is still empty
C3_Witness ==
  /\ cpc = "loop"
  /\ nspans = MaxSpans
  /\ Strip(section.text) # <<>>
  /\ current_section = NoSection
  /\ \A sec \in Sections : structured_content[sec] = <<>>

\* the keywords of the header chain, most preferred first
Priority == <<"EXPERIENCE", "EDUCATION", "SKILLS", "SUMMARY">>

SectionOf(kw) ==
  CASE kw = "EXPERIENCE" -> "experience"
    [] kw = "EDUCATION" -> "education"
    [] kw = "SKILLS" -> "skills"
    [] kw = "SUMMARY" -> "summary"

\* C4: the header chain selects the section of the first keyword, in the
\* order EXPERIENCE, EDUCATION, SKILLS, SUMMARY, that occurs in the uppercased
\* text, and leaves current_section unchanged when none occurs
C4_HeaderPriority ==
  [][(cpc = "match" /\ cpc' = "matched") =>
       LET up == Upper(Strip(section.text))
           hits == {i \in 1..Len(Priority) : Contains(up, Priority[i])}
       IN IF hits = {}
          THEN current_section' = current_section
          ELSE \E i \in hits :
                 /\ \A j \in hits : i <= j
                 /\ current_section' = SectionOf(Priority[i])]_vars

\* a text naming both EDUCATION and EXPERIENCE, education first, selected
\* experience
C4_Witness ==
  /\ cpc = "matched"
  /\ Len(section.text) = 2
  /\ Upper(section.text) = <<"EDUCATION", "EXPERIENCE">>
  /\ current_section = "experience"

\* C5: process_text_sections never raises and returns a Document with
\* exactly the five keys
C5_ClassifyNeverRaises ==
  /\ cpc # "raised"
  /\ cpc = "returned" => DOMAIN structured_content = DocumentKeys

\* a call whose last span was bold and whitespace-only has returned
C5_Witness ==
  /\ cpc = "returned"
  /\ nspans >= 1
  /\ section.is_bold
  /\ section.text # <<>>
  /\ Strip(section.text) = <<>>

\* C16: current_font_size is never assigned, so no section ever becomes
\* active and the Document of process_text_sections is the empty one at
\* every point of every call, and so when it is returned
C16_AlwaysEmptyDocument ==
  cpc \in {"loop", "returned"} =>
    /\ current_font_size = None
    /\ current_section = NoSection
    /\ structured_content = EmptyDocument

\* a call has returned after a last span, not the first, that was bold, of
\* the largest size and named SKILLS
C16_Witness ==
  /\ cpc = "returned"
  /\ nspans >= 2
  /\ section.is_bold
  /\ \A z \in FontSizes : section.font_size >= z
  /\ Strip(section.text) = <<"skills">>
  /\ structured_content = EmptyDocument

----------------------------------------------------------------------------
\* resume_optimizer.ResumeOptimizer

MaxExperience == 2     \* experience entries of a resume
MaxSkills == 2         \* entries of a skill list

Comma == ","

Python == <<"Python">>

Cooking == <<"Cooking">>

SkillNames == {Python, Cooking}

ExperienceEntries == {<<"Built">>, <<"Sold">>}

\* the resumes handed to optimize_resume
ResumeDocuments ==
  {EmptyDocument} \cup
  [header : {<<>>}, summary : {<<"Acme">>},
   experience : SeqsUpTo(ExperienceEntries, MaxExperience),
   education : {<<<<"BS">>>>},
   skills : SeqsUpTo(SkillNames, MaxSkills)]

KeywordBundleKeys ==
  {"skills", "technical_terms", "requirements", "keywords", "important_phrases"}

\* the keys ResumeOptimizer indexes job_keywords with
IndexedKeys == {"skills", "technical_terms", "requirements", "keywords"}

\* what nlp_processor.extract_keywords_from_job_description returns
KeywordBundles ==
  [skills : {<<>>, <<Python>>}, technical_terms : {<<>>, <<Cooking>>},
   requirements : {<<<<"must">>>>}, keywords : {<<<<"agile">>>>},
   important_phrases : {<<>>}]

Restrict(f, S) == [x \in S |-> f[x]]

\* the job_keywords handed to optimize_resume: a bundle, or one lacking a key
JobKeywords ==
  KeywordBundles \cup
  {Restrict(b, KeywordBundleKeys \ {k}) : b \in KeywordBundles, k \in IndexedKeys}

\* the outcomes of llm.complete: a response text, or an exception
LLMTexts == {<<>>, <<Space, "Led", Space>>, <<"Python", Comma, Space, "SQL">>}

LLMOutcomes == [ok : {TRUE}, text : LLMTexts] \cup [ok : {FALSE}, text : {<<>>}]

KeyError(k) == [kind |-> "KeyError", msg |-> k]

LLMError == [kind |-> "LLMError", msg |-> "completion failed"]

\* str(e); an exception built as f"...: {str(cause)}" carries the text of its cause
Str(e) == IF "cause" \in DOMAIN e THEN <<e.msg>> \o e.cause ELSE <<e.msg>>

\* d.get(k, []) in place of d[k]
SubscriptOrEmpty(d, k) ==
  IF k \in DOMAIN d THEN [ok |-> TRUE, val |-> d[k]]
  ELSE [ok |-> TRUE, val |-> <<>>]

\* d[k] of a dict: the value, or KeyError(k)
Subscript(d, k) ==
  IF k \in DOMAIN d THEN [ok |-> TRUE, val |-> d[k]]
  ELSE [ok |-> FALSE, val |-> k]

\* x in l, for a list l
InList(x, l) == \E i \in DOMAIN l : l[i] = x

\* set(l)
ToSet(l) == {l[i] : i \in DOMAIN l}

\* the orders in which a set can be iterated
Orders(S) ==
  {o \in [1..Cardinality(S) -> S] : \A i, j \in DOMAIN o : i # j => o[i] # o[j]}

\* other_skills + relevant_skills
CombineSkillsOtherFirst(order, required_skills, technical_terms) ==
  LET Relevant(x) == InList(x, required_skills) \/ InList(x, technical_terms)
      NotRelevant(x) == ~Relevant(x)
  IN SelectSeq(order, NotRelevant) \o SelectSeq(order, Relevant)

\* the partition loop over all_skills and relevant_skills + other_skills
CombineSkills(order, required_skills, technical_terms) ==
  LET Relevant(x) == InList(x, required_skills) \/ InList(x, technical_terms)
      NotRelevant(x) == ~Relevant(x)
  IN SelectSeq(order, Relevant) \o SelectSeq(order, NotRelevant)

\* str.split(',')
RECURSIVE Split(_)
Split(t) ==
  IF ~Contains(t, Comma) THEN <<t>>
  ELSE LET i == CHOOSE k \in DOMAIN t :
                  t[k] = Comma /\ \A m \in 1..(k - 1) : t[m] # Comma
       IN <<SubSeq(t, 1, i - 1)>> \o Split(SubSeq(t, i + 1, Len(t)))

\* [skill.strip() for skill in response.text.strip().split(',')]
SplitSkills(t) ==
  LET parts == Split(Strip(t)) IN [i \in DOMAIN parts |-> Strip(parts[i])]

\* optimized_experiences.insert(0, response.text.strip())
AppendExperienceFront(list, t) == <<Strip(t)>> \o list

\* optimized_experiences.append(response.text.strip())
AppendExperience(list, t) == Append(list, Strip(t))

\* the except clause answering success
ErrorResultSuccess(e) ==
  [status |-> "success", file_id |-> <<"unknown", "_optimized">>, error |-> None]

\* OptimizationResult(status="error", error=str(e))
ErrorResult(e) == [status |-> "error", file_id |-> None, error |-> Str(e)]

\* an exception leaves optimize_resume; generate_updated_resume catches it
Raise(e) ==
  /\ opc' = "raised"
  /\ exc' = <<e>>
  /\ IF pc = "optimizing"
     THEN /\ pc' = "responded"
          /\ response' = ErrorResult(e)
     ELSE UNCHANGED <<pc, response>>

\* llm.complete(prompt): the call is logged with its outcome
Complete(prompt, out) == llm_log' = Append(llm_log, [prompt |-> prompt, out |-> out])

\* optimized_content["summary"] = self._optimize_summary(...)
OptimizeSummary ==
  /\ opc = "summary"
  /\ LET requirements == Subscript(job_keywords, "requirements")
         keywords == Subscript(job_keywords, "keywords")
     IN IF ~requirements.ok
        THEN Raise(KeyError(requirements.val)) /\ UNCHANGED <<llm_log, optimized_content>>
        ELSE IF ~keywords.ok
        THEN Raise(KeyError(keywords.val)) /\ UNCHANGED <<llm_log, optimized_content>>
        ELSE \E out \in LLMOutcomes :
               /\ Complete([task |-> "summary",
                            original |-> resume_content.summary,
                            requirements |-> requirements.val,
                            keywords |-> keywords.val], out)
               /\ IF out.ok
                  THEN /\ optimized_content' =
                            [optimized_content EXCEPT !.summary = Strip(out.text)]
                       /\ opc' = "experience"
                       /\ UNCHANGED <<exc, pc, response>>
                  ELSE Raise(LLMError) /\ UNCHANGED optimized_content
  /\ UNCHANGED <<resume_content, job_keywords, optimized_experiences>>
  /\ UNCHANGED <<cvars, uvars, nrequests, file_id, txt_files, pdf_files, story, written>>

\* one iteration of: for experience in experiences
OptimizeExperience ==
  /\ opc = "experience"
  /\ Len(optimized_experiences) < Len(resume_content.experience)
  /\ LET experience == resume_content.experience[Len(optimized_experiences) + 1]
         requirements == Subscript(job_keywords, "requirements")
         technical_terms == Subscript(job_keywords, "technical_terms")
     IN IF ~requirements.ok
        THEN Raise(KeyError(requirements.val)) /\ UNCHANGED <<llm_log, optimized_experiences>>
        ELSE IF ~technical_terms.ok
        THEN Raise(KeyError(technical_terms.val)) /\ UNCHANGED <<llm_log, optimized_experiences>>
        ELSE \E out \in LLMOutcomes :
               /\ Complete([task |-> "experience",
                            original |-> experience,
                            requirements |-> requirements.val,
                            technical_terms |-> technical_terms.val], out)
               /\ IF out.ok
                  THEN /\ optimized_experiences' =
                            AppendExperience(optimized_experiences, out.text)
                       /\ UNCHANGED <<opc, exc, pc, response>>
                  ELSE Raise(LLMError) /\ UNCHANGED optimized_experiences
  /\ UNCHANGED <<resume_content, job_keywords, optimized_content>>
  /\ UNCHANGED <<cvars, uvars, nrequests, file_id, txt_files, pdf_files, story, written>>

\* the loop is over, with the result stored under the key "education"
ReturnExperiencesAsEducation ==
  /\ opc = "experience"
  /\ Len(optimized_experiences) = Len(resume_content.experience)
  /\ optimized_content' =
       [optimized_content EXCEPT !.education = optimized_experiences]
  /\ opc' = "skills"
  /\ UNCHANGED <<resume_content, job_keywords, optimized_experiences, llm_log, exc>>
  /\ UNCHANGED <<cvars, svars, uvars>>

\* the loop is over: optimized_content["experience"] = optimized_experiences
ReturnExperiences ==
  /\ opc = "experience"
  /\ Len(optimized_experiences) = Len(resume_content.experience)
  /\ optimized_content' =
       [optimized_content EXCEPT !.experience = optimized_experiences]
  /\ opc' = "skills"
  /\ UNCHANGED <<resume_content, job_keywords, optimized_experiences, llm_log, exc>>
  /\ UNCHANGED <<cvars, svars, uvars>>

\* optimized_content["skills"] = self._optimize_skills(...); return optimized_content
OptimizeSkills ==
  /\ opc = "skills"
  /\ LET required_skills == Subscript(job_keywords, "skills")
         technical_terms == Subscript(job_keywords, "technical_terms")
     IN IF ~required_skills.ok
        THEN Raise(KeyError(required_skills.val)) /\ UNCHANGED <<llm_log, optimized_content>>
        ELSE IF ~technical_terms.ok
        THEN Raise(KeyError(technical_terms.val)) /\ UNCHANGED <<llm_log, optimized_content>>
        ELSE \E order \in Orders(ToSet(resume_content.skills)), out \in LLMOutcomes :
               /\ Complete([task |-> "skills",
                            skills |-> CombineSkills(order, required_skills.val,
                                                     technical_terms.val),
                            technical_terms |-> technical_terms.val], out)
               /\ IF out.ok
                  THEN /\ optimized_content' =
                            [optimized_content EXCEPT !.skills = SplitSkills(out.text)]
                       /\ opc' = "returned"
                       /\ UNCHANGED <<exc, pc, response>>
                  ELSE Raise(LLMError) /\ UNCHANGED optimized_content
  /\ UNCHANGED <<resume_content, job_keywords, optimized_experiences>>
  /\ UNCHANGED <<cvars, uvars, nrequests, file_id, txt_files, pdf_files, story, written>>

OptimizeNext ==
  OptimizeSummary \/ OptimizeExperience \/ ReturnExperiences \/ OptimizeSkills

\* optimizer.optimize_resume(resume_content, job_keywords, job_description)
\* entered: optimized_content = resume_content.copy()
OptimizeInit ==
  /\ ClassifierIdle
  /\ ServerOff
  /\ opc = "summary"
  /\ resume_content \in ResumeDocuments
  /\ job_keywords \in JobKeywords
  /\ optimized_content = resume_content
  /\ optimized_experiences = <<>>
  /\ llm_log = <<>>
  /\ exc = None

SpecOptimize == OptimizeInit /\ [][OptimizeNext]_vars

----------------------------------------------------------------------------
\* Properties of ResumeOptimizer

\* the calls of llm.complete made by _optimize_experience, in call order
ExperienceCalls ==
  LET IsExperience(c) == c.prompt.task = "experience"
  IN SelectSeq(llm_log, IsExperience)

\* the calls of llm.complete made by _optimize_skills
SkillsCalls ==
  LET IsSkills(c) == c.prompt.task = "skills"
  IN SelectSeq(llm_log, IsSkills)

\* C6: the k-th generation request of _optimize_experience is for the k-th
\* entry, the k-th collected result is the trimmed response to it, and once
\* _optimize_experience has returned there is one request per entry and the
\* returned list has the length of the input
C6_OneRequestPerEntryInOrder ==
  /\ Len(ExperienceCalls) <= Len(resume_content.experience)
  /\ \A k \in DOMAIN ExperienceCalls :
       ExperienceCalls[k].prompt.original = resume_content.experience[k]
  /\ \A k \in DOMAIN optimized_experiences :
       /\ k \in DOMAIN ExperienceCalls
       /\ ExperienceCalls[k].out.ok
       /\ optimized_experiences[k] = Strip(ExperienceCalls[k].out.text)
  /\ opc \in {"skills", "returned"} =>
       /\ Len(ExperienceCalls) = Len(resume_content.experience)
       /\ Len(optimized_content.experience) = Len(resume_content.experience)
       /\ optimized_content.experience = optimized_experiences

\* two different entries were rewritten with two different responses, one of
\* them padded with spaces
C6_Witness ==
  /\ opc = "skills"
  /\ Len(resume_content.experience) = 2
  /\ resume_content.experience[1] # resume_content.experience[2]
  /\ optimized_content.experience[1] # optimized_content.experience[2]
  /\ ExperienceCalls[2].out.text # Strip(ExperienceCalls[2].out.text)

\* C7: the skill list of the formatting request holds every original skill
\* once, and no skill outside required_skills and technical_terms stands
\* before one that is in them
C7_RelevantSkillsFirst ==
  \A c \in DOMAIN SkillsCalls :
    LET listed == SkillsCalls[c].prompt.skills
        Relevant(x) == \/ InList(x, job_keywords["skills"])
                       \/ InList(x, job_keywords["technical_terms"])
    IN /\ ToSet(listed) = ToSet(resume_content.skills)
       /\ Len(listed) = Cardinality(ToSet(resume_content.skills))
       /\ \A i, j \in DOMAIN listed :
            (Relevant(listed[j]) /\ ~Relevant(listed[i])) => j < i

\* the resume lists Cooking before Python, Python is required, and the
\* request lists Python before Cooking
C7_Witness ==
  /\ resume_content.skills = <<Cooking, Python>>
  /\ "skills" \in DOMAIN job_keywords
  /\ "technical_terms" \in DOMAIN job_keywords
  /\ job_keywords["skills"] = <<Python>>
  /\ job_keywords["technical_terms"] = <<>>
  /\ Len(SkillsCalls) = 1
  /\ SkillsCalls[1].prompt.skills = <<Python, Cooking>>

\* the keys of job_keywords a request of the given task embeds
PromptKeys(task) ==
  CASE task = "summary" -> {"requirements", "keywords"}
    [] task = "experience" -> {"requirements", "technical_terms"}
    [] task = "skills" -> {"technical_terms"}

\* C9: with a job_keywords lacking requirements, technical_terms, skills or
\* keywords, optimize_resume never returns; it ends in the KeyError of a
\* lacking key unless a generation call failed first; no request carries a
\* value for a key that job_keywords lacks; and lacking requirements or
\* keywords it fails before any request is made
C9_MissingKeyFails ==
  (opc # "idle" /\ ~(IndexedKeys \subseteq DOMAIN job_keywords)) =>
    /\ opc # "returned"
    /\ opc = "raised" =>
         \/ /\ exc[1].kind = "KeyError"
            /\ exc[1].msg \in IndexedKeys \ DOMAIN job_keywords
         \/ /\ exc[1] = LLMError
            /\ llm_log # <<>>
            /\ ~llm_log[Len(llm_log)].out.ok
    /\ \A c \in DOMAIN llm_log :
         \A k \in PromptKeys(llm_log[c].prompt.task) :
           /\ k \in DOMAIN job_keywords
           /\ llm_log[c].prompt[k] = job_keywords[k]
    /\ ({"requirements", "keywords"} \ DOMAIN job_keywords # {}) =>
         /\ llm_log = <<>>
         /\ opc = "raised" => exc[1].kind = "KeyError"

\* a resume without experience entries and a job_keywords lacking
\* technical_terms: the summary was rewritten, then KeyError
C9_Witness ==
  /\ opc = "raised"
  /\ resume_content.experience = <<>>
  /\ "technical_terms" \notin DOMAIN job_keywords
  /\ exc = <<KeyError("technical_terms")>>
  /\ Len(llm_log) = 1
  /\ llm_log[1].out.ok

\* C17: the Document optimize_resume returns has the five keys and the
\* header and education of its input, and no step of the call changes the
\* input Document
C17_OnlyThreeSectionsRewritten ==
  /\ [](opc = "returned" =>
          /\ DOMAIN optimized_content = DocumentKeys
          /\ optimized_content.header = resume_content.header
          /\ optimized_content.education = resume_content.education)
  /\ [][resume_content' = resume_content]_vars

\* a resume with education and one experience entry came back with its
\* summary, experience and skills rewritten
C17_Witness ==
  /\ opc = "returned"
  /\ resume_content.education # <<>>
  /\ Len(resume_content.experience) = 1
  /\ optimized_content.summary # resume_content.summary
  /\ optimized_content.experience # resume_content.experience
  /\ optimized_content.skills # resume_content.skills

----------------------------------------------------------------------------
\* pdf_processor.generate_pdf and main.generate_updated_resume

MaxRequests == 2       \* requests served in one run

Optimized == "_optimized"

\* the file ids of the uploads found in temp/ and the ids a client may send
UploadIds == {<<"u1">>}

RequestIds == {<<"u1">>, <<"u2">>, <<"u1", Optimized>>}

\* json.dumps(document) and json.loads(text)
JsonDumps(d) == [json |-> d]

JsonLoads(t) == t.json

\* the Documents stored as temp/<file_id>.txt
StoredDocuments ==
  {EmptyDocument,
   [header |-> <<>>, summary |-> <<"Acme">>, experience |-> <<<<"Built">>>>,
    education |-> <<<<"BS">>>>, skills |-> <<Cooking, Python>>]}

Put(f, k, v) == [x \in DOMAIN f \cup {k} |-> IF x = k THEN v ELSE f[x]]

\* content.get(k)
Get(d, k) == IF k \in DOMAIN d THEN d[k] ELSE None

\* Paragraph(text, header_style), Paragraph(text, content_style), Spacer(1, 20)
Heading(title) == [kind |-> "Paragraph", style |-> "CustomHeader", text |-> <<title>>]

Body(text) == [kind |-> "Paragraph", style |-> "CustomBody", text |-> text]

Spacer == [kind |-> "Spacer", style |-> "none", text |-> <<>>]

\* ", ".join(l)
RECURSIVE Join(_)
Join(l) ==
  IF l = <<>> THEN <<>>
  ELSE IF Len(l) = 1 THEN l[1]
  ELSE l[1] \o <<Comma, Space>> \o Join(Tail(l))

\* a heading followed by one paragraph per entry and a spacer
EntriesBlock(title, entries) ==
  IF entries # <<>>
  THEN <<Heading(title)>> \o [i \in DOMAIN entries |-> Body(entries[i])] \o <<Spacer>>
  ELSE <<>>

\* the story generate_pdf hands to doc.build
BuildStory(content) ==
  (IF Get(content, "summary") # <<>>
   THEN <<Heading("Professional Summary"), Body(content.summary), Spacer>>
   ELSE <<>>)
  \o EntriesBlock("Professional Experience", Get(content, "experience"))
  \o EntriesBlock("Education", Get(content, "education"))
  \o (IF Get(content, "skills") # <<>>
      THEN <<Heading("Skills"), Body(Join(content.skills))>>
      ELSE <<>>)

HTTPException(status_code, detail) ==
  [kind |-> "HTTPException", status_code |-> status_code, detail |-> detail,
   msg |-> detail]

RenderError == [kind |-> "RenderError", msg |-> "build failed"]

\* Paragraph() parses the text it is given and may reject it; the headings
\* are fixed texts
BuildOutcomes(st) ==
  IF \E i \in DOMAIN st : st[i].style = "CustomBody" THEN BOOLEAN ELSE {TRUE}

\* POST /generate_updated_resume/{file_id}, up to the call of
\* optimizer.optimize_resume
GenerateBegin ==
  /\ pc \in {"idle", "responded"}
  /\ nrequests < MaxRequests
  /\ nrequests' = nrequests + 1
  /\ \E id \in RequestIds, keywords \in KeywordBundles :
       /\ file_id' = id
       /\ request' = [endpoint |-> "generate_updated_resume", file_id |-> id]
       /\ invoked' = {}
       /\ story' = <<>>
       /\ written' = {}
       /\ optimized_experiences' = <<>>
       /\ llm_log' = <<>>
       /\ IF id \notin DOMAIN txt_files
          THEN /\ exc' = <<HTTPException(404, "Resume not found")>>
               /\ response' = ErrorResult(HTTPException(404, "Resume not found"))
               /\ pc' = "responded"
               /\ opc' = "idle"
               /\ resume_content' = EmptyDocument
               /\ job_keywords' = <<>>
               /\ optimized_content' = EmptyDocument
          ELSE /\ exc' = None
               /\ response' = None
               /\ pc' = "optimizing"
               /\ opc' = "summary"
               /\ resume_content' = JsonLoads(txt_files[id])
               /\ job_keywords' = keywords
               /\ optimized_content' = JsonLoads(txt_files[id])
  /\ UNCHANGED <<cvars, txt_files, pdf_files, extracted_text>>

\* generate_pdf(optimized_resume, output_path) and the success result
GeneratePdf ==
  /\ pc = "optimizing"
  /\ opc = "returned"
  /\ LET st == BuildStory(optimized_content)
         output == file_id \o <<Optimized>>
     IN /\ story' = st
        /\ \E built \in BuildOutcomes(st) :
             IF built
             THEN /\ pdf_files' = Put(pdf_files, output, st)
                  /\ written' = written \cup {output}
                  /\ response' = [status |-> "success", file_id |-> output,
                                  error |-> None]
                  /\ UNCHANGED exc
             ELSE /\ exc' = <<RenderError>>
                  /\ response' = ErrorResult(RenderError)
                  /\ UNCHANGED <<pdf_files, written>>
  /\ pc' = "responded"
  /\ UNCHANGED <<cvars, uvars, opc, resume_content, job_keywords, optimized_content,
                 optimized_experiences, llm_log, nrequests, file_id, txt_files>>

\* the server is up: temp/ holds the uploads made so far
Init ==
  /\ ClassifierIdle
  /\ OptimizerIdle
  /\ pc = "idle"
  /\ nrequests = 0
  /\ file_id = None
  /\ \E d \in StoredDocuments :
       /\ txt_files = [id \in UploadIds |-> JsonDumps(d)]
       /\ pdf_files = [id \in UploadIds |-> <<"%PDF">>]
  /\ story = <<>>
  /\ written = {}
  /\ response = None
  /\ request = None
  /\ invoked = {}
  /\ extracted_text = None


----------------------------------------------------------------------------
\* Properties of generate_updated_resume and generate_pdf

\* C8: when a generation call has failed, the request is answered with
\* status "error", the stringified cause and no file_id, nothing was written
\* to temp/ for it, and the answer carries no Document
C8_GenerationFailureAborts ==
  (pc = "responded" /\ exc # None /\ exc[1] = LLMError) =>
    /\ response.status = "error"
    /\ response.error = Str(LLMError)
    /\ response.file_id = None
    /\ DOMAIN response = {"status", "file_id", "error"}
    /\ written = {}
    /\ story = <<>>
    /\ ~llm_log[Len(llm_log)].out.ok

\* the summary had been rewritten when a later generation call failed
C8_Witness ==
  /\ pc = "responded"
  /\ exc = <<LLMError>>
  /\ Len(llm_log) >= 2
  /\ optimized_content.summary # resume_content.summary
  /\ response.status = "error"

\* C10: in the story generate_pdf builds, every heading is followed by a
\* paragraph that has text, and the Document with nothing in it gives the
\* empty story
C10_NoEmptyHeadings ==
  (pc = "responded" /\ opc = "returned") =>
    /\ \A i \in DOMAIN story :
         story[i].style = "CustomHeader" =>
           /\ i + 1 \in DOMAIN story
           /\ story[i + 1].style = "CustomBody"
           /\ Strip(story[i + 1].text) # <<>>
    /\ (\A sec \in Sections : optimized_content[sec] = <<>>) => story = <<>>

----------------------------------------------------------------------------
\* pdf_processor.extract_text_from_pdf, called directly

\* what fitz raises for a file it cannot open, or a page it cannot decode
PdfFaults == {"cannot open broken document", "cannot decode page"}

FileDataError(m) == [kind |-> "FileDataError", msg |-> m]

\* the except clause re-raising the exception it caught
PdfProcessingFailedBare(e) == e

\* raise RuntimeError(f"PDF processing failed: {str(e)}")
PdfProcessingFailed(e) ==
  [kind |-> "RuntimeError", msg |-> "PDF processing failed: ", cause |-> Str(e)]

ExtractInit ==
  /\ OptimizerIdle
  /\ cpc = "open"
  /\ section = NoSpan
  /\ nspans = 0
  /\ current_section = NoSection
  /\ current_font_size = None
  /\ structured_content = EmptyDocument
  /\ pc = "extract"
  /\ nrequests = 0
  /\ file_id = None
  /\ txt_files = <<>>
  /\ pdf_files = <<>>
  /\ story = <<>>
  /\ written = {}
  /\ response = None
  /\ request = None
  /\ invoked = {}
  /\ extracted_text = None

\* fitz.open(pdf_path) and the loops over pages, blocks, lines and spans:
\* they build text_sections, or raise before process_text_sections is called
ExtractOpen ==
  /\ pc = "extract"
  /\ cpc = "open"
  /\ \/ /\ cpc' = "loop"
        /\ UNCHANGED exc
     \/ \E m \in PdfFaults :
          /\ cpc' = "raised"
          /\ exc' = <<PdfProcessingFailed(FileDataError(m))>>
  /\ UNCHANGED <<section, nspans, current_section, current_font_size,
                 structured_content>>
  /\ UNCHANGED <<opc, resume_content, job_keywords, optimized_content,
                 optimized_experiences, llm_log>>
  /\ UNCHANGED <<svars, uvars>>

\* return json.dumps(process_text_sections(text_sections))
ExtractReturn ==
  /\ pc = "extract"
  /\ cpc = "returned"
  /\ cpc' = "done"
  /\ extracted_text' = JsonDumps(structured_content)
  /\ UNCHANGED <<section, nspans, current_section, current_font_size,
                 structured_content>>
  /\ UNCHANGED <<ovars, svars, request, invoked>>

ExtractNext == ExtractOpen \/ ProcessSection \/ ReturnContent \/ ExtractReturn

SpecExtract == ExtractInit /\ [][ExtractNext]_vars

----------------------------------------------------------------------------
\* main.upload_resume, db_manager.save_temp_file and main.download_resume

\* max_size = 5 * 1024 * 1024
MaxUploadSize == 5 * 1024 * 1024

PdfMagic == "%PDF"

\* the spans fitz reads from an uploaded resume
ResumeSpans ==
  <<[text |-> <<"Acme">>, font_size |-> 11, is_bold |-> FALSE],
    [text |-> <<"EXPERIENCE">>, font_size |-> 16, is_bold |-> TRUE],
    [text |-> <<"Acme", Space>>, font_size |-> 11, is_bold |-> FALSE]>>

\* bytes: their length, their first four bytes, and what fitz makes of them
EmptyBytes == [len |-> 0, head |-> <<>>, fault |-> None, spans |-> <<>>]

Uploads ==
  {EmptyBytes} \cup
  [len : {1024, MaxUploadSize, MaxUploadSize + 1},
   head : {<<PdfMagic>>, <<"GIF8">>},
   fault : {None} \cup {<<m>> : m \in PdfFaults},
   spans : {ResumeSpans}]

\* an UploadFile: the bytes sent and the position of the stream in them
NewUploadFile(b) == [bytes |-> b, pos |-> 0]

\* await file.read(): the bytes from the position on; the position moves to
\* the end
Read(file) == IF file.pos = 0 THEN file.bytes ELSE EmptyBytes

AfterRead(file) == [file EXCEPT !.pos = file.bytes.len]

\* contents[:4] != b'%PDF' and content.startswith(b'%PDF')
StartsWithPdf(b) == b.head = <<PdfMagic>>

\* the size test switched off
TooLargeNever(contents) == FALSE

\* len(contents) > max_size
TooLarge(contents) == contents.len > MaxUploadSize

ValueError(m) == [kind |-> "ValueError", msg |-> m]

\* FileStorageError(f"File validation failed: {str(e)}")
FileStorageError(e) ==
  [kind |-> "FileStorageError", msg |-> "File validation failed: ", cause |-> Str(e)]

TypeError == [kind |-> "TypeError", msg |-> "'>' not supported"]

\* save_temp_file(file): reads the file itself, validates and writes it
SaveTempFile(file, id) ==
  LET content == Read(file)
  IN IF ~StartsWithPdf(content)
     THEN [ok |-> FALSE, e |-> FileStorageError(ValueError("Invalid PDF content")),
           file_id |-> None, content |-> content]
     ELSE [ok |-> TRUE, e |-> None, file_id |-> id, content |-> content]

\* process_text_sections(sections) as a function of the whole list
RECURSIVE ClassifyFrom(_, _, _)
ClassifyFrom(sections, cur, doc) ==
  IF sections = <<>> THEN [ok |-> TRUE, doc |-> doc]
  ELSE LET s == Head(sections)
           text == Strip(s.text)
           test == HeaderTest(None, s.is_bold, s.font_size)
           selected == IF test = "True" THEN SelectSection(text, cur) ELSE cur
       IN IF test = "TypeError" THEN [ok |-> FALSE, doc |-> doc]
          ELSE ClassifyFrom(Tail(sections), selected, Accumulate(doc, selected, text))

ProcessTextSections(sections) == ClassifyFrom(sections, NoSection, EmptyDocument)

\* extract_text_from_pdf(pdf_path) as a function of the bytes at the path
ExtractTextFromPdf(b) ==
  IF b.fault # None
  THEN [ok |-> FALSE, e |-> PdfProcessingFailed(FileDataError(b.fault[1])), text |-> None]
  ELSE LET r == ProcessTextSections(b.spans)
       IN IF r.ok THEN [ok |-> TRUE, e |-> None, text |-> JsonDumps(r.doc)]
          ELSE [ok |-> FALSE, e |-> PdfProcessingFailed(TypeError), text |-> None]

\* what the client receives for raise HTTPException(status_code, detail)
HttpError(status_code, detail) == [status_code |-> status_code, detail |-> detail]

\* the file ids uuid4 may give
Uuids == {<<"u1">>, <<"u2">>, <<"u3">>}

\* the body of upload_resume for the bytes b, with id the uuid4 drawn by
\* save_temp_file: the exception raised in the try block if any, what is
\* written and what is called
UploadOutcome(b, id) ==
  LET file == NewUploadFile(b)
      contents == Read(file)
      saved == SaveTempFile(AfterRead(file), id)
      extracted == ExtractTextFromPdf(saved.content)
  IN IF TooLarge(contents)
     THEN [e |-> <<HTTPException(413, "File too large")>>, file_id |-> None,
           pdf |-> None, txt |-> None, invoked |-> {}]
     ELSE IF ~StartsWithPdf(contents)
     THEN [e |-> <<HTTPException(400, "Invalid PDF file")>>, file_id |-> None,
           pdf |-> None, txt |-> None, invoked |-> {}]
     ELSE IF ~saved.ok
     THEN [e |-> <<saved.e>>, file_id |-> None,
           pdf |-> None, txt |-> None, invoked |-> {"save_temp_file"}]
     ELSE IF ~extracted.ok
     THEN [e |-> <<extracted.e>>, file_id |-> id,
           pdf |-> <<saved.content>>, txt |-> None,
           invoked |-> {"save_temp_file", "get_temp_file", "extract_text_from_pdf"}]
     ELSE [e |-> None, file_id |-> id,
           pdf |-> <<saved.content>>, txt |-> <<extracted.text>>,
           invoked |-> {"save_temp_file", "get_temp_file", "extract_text_from_pdf"}]

\* a request begins: no call of optimize_resume is in progress
NoOptimize ==
  /\ opc' = "idle"
  /\ resume_content' = EmptyDocument
  /\ job_keywords' = <<>>
  /\ optimized_content' = EmptyDocument
  /\ optimized_experiences' = <<>>
  /\ llm_log' = <<>>
  /\ story' = <<>>

\* POST /upload_resume
UploadResume ==
  /\ pc \in {"idle", "responded"}
  /\ nrequests < MaxRequests
  /\ nrequests' = nrequests + 1
  /\ NoOptimize
  /\ \E b \in Uploads, id \in Uuids \ DOMAIN pdf_files :
       LET out == UploadOutcome(b, id)
       IN /\ request' = [endpoint |-> "upload_resume", file |-> b]
          /\ invoked' = out.invoked
          /\ file_id' = out.file_id
          /\ exc' = out.e
          /\ pdf_files' = IF out.pdf = None THEN pdf_files
                          ELSE Put(pdf_files, id, out.pdf[1])
          /\ txt_files' = IF out.txt = None THEN txt_files
                          ELSE Put(txt_files, id, out.txt[1])
          /\ written' = (IF out.pdf = None THEN {} ELSE {id})
                          \cup (IF out.txt = None THEN {} ELSE {id \o <<".txt">>})
          /\ response' =
               IF out.e = None
               THEN [status |-> "success", file_id |-> id]
               ELSE HttpError(500, <<"Processing failed: ">> \o Str(out.e[1]))
  /\ pc' = "responded"
  /\ UNCHANGED <<cvars, extracted_text>>

\* the names main.py imports from fastapi
MainImports == {"FastAPI", "File", "UploadFile", "HTTPException"}

\* name 'FileResponse' is not defined
NameError(n) == [kind |-> "NameError", name |-> n, msg |-> "name is not defined"]

\* FileResponse(file_path, media_type="application/pdf", filename=...)
FileResponse(content) ==
  [status_code |-> 200, media_type |-> "application/pdf",
   filename |-> "optimized_resume.pdf", content |-> content]

\* GET /download_resume/{file_id}
DownloadResume ==
  /\ pc \in {"idle", "responded"}
  /\ nrequests < MaxRequests
  /\ nrequests' = nrequests + 1
  /\ NoOptimize
  /\ \E id \in RequestIds :
       /\ request' = [endpoint |-> "download_resume", file_id |-> id]
       /\ file_id' = id
       /\ IF id \notin DOMAIN pdf_files
          THEN /\ exc' = <<HTTPException(404, "File not found")>>
               /\ response' = HttpError(500, Str(HTTPException(404, "File not found")))
          ELSE IF "FileResponse" \notin MainImports
          THEN /\ exc' = <<NameError("FileResponse")>>
               /\ response' = HttpError(500, Str(NameError("FileResponse")))
          ELSE /\ exc' = None
               /\ response' = FileResponse(pdf_files[id])
  /\ invoked' = {}
  /\ written' = {}
  /\ pc' = "responded"
  /\ UNCHANGED <<cvars, txt_files, pdf_files, extracted_text>>
Next ==
  GenerateBegin \/ OptimizeNext \/ GeneratePdf \/ UploadResume \/ DownloadResume

Spec == Init /\ [][Next]_vars

----------------------------------------------------------------------------
\* Properties of upload_resume and download_resume

\* the request just answered was an upload
UploadAnswered == pc = "responded" /\ request.endpoint = "upload_resume"

\* C11: an upload longer than 5 MB, or not starting with %PDF, is refused by
\* the handler's own test: the exception raised is the one of that test, no
\* function of utils/ was called (neither save_temp_file nor
\* extract_text_from_pdf), nothing was written to temp/ and the answer has
\* no file_id
C11_OversizeOrBadMagicRejected ==
  (UploadAnswered /\ (request.file.len > MaxUploadSize
                      \/ request.file.head # <<PdfMagic>>)) =>
    /\ exc = IF request.file.len > MaxUploadSize
             THEN <<HTTPException(413, "File too large")>>
             ELSE <<HTTPException(400, "Invalid PDF file")>>
    /\ invoked = {}
    /\ written = {}
    /\ file_id = None
    /\ "file_id" \notin DOMAIN response
    /\ response.status_code >= 400

\* a file one byte over the limit that starts with %PDF was refused
C11_Witness ==
  /\ UploadAnswered
  /\ request.file.len = MaxUploadSize + 1
  /\ request.file.head = <<PdfMagic>>
  /\ request.file.fault = None
  /\ exc = <<HTTPException(413, "File too large")>>
  /\ invoked = {}

\* C12: an upload of at most 5 MB that starts with %PDF and that fitz can
\* read is answered with status "success" and a file_id under which temp/
\* then holds the uploaded bytes and the JSON Document
C12_ValidUploadSucceeds ==
  (UploadAnswered /\ request.file.len <= MaxUploadSize
                  /\ request.file.head = <<PdfMagic>>
                  /\ request.file.fault = None) =>
    /\ DOMAIN response = {"status", "file_id"}
    /\ response.status = "success"
    /\ response.file_id \in DOMAIN pdf_files
    /\ pdf_files[response.file_id] = request.file
    /\ response.file_id \in DOMAIN txt_files
    /\ DOMAIN JsonLoads(txt_files[response.file_id]) = DocumentKeys

\* C14: the HTTP errors raised in the handlers reach the client with their
\* own status code and detail
C14_HttpErrorsReachCaller ==
  pc = "responded" =>
    /\ (request.endpoint = "upload_resume" /\ request.file.len > MaxUploadSize)
         => response = HttpError(413, <<"File too large">>)
    /\ (request.endpoint = "upload_resume" /\ request.file.len <= MaxUploadSize
          /\ request.file.head # <<PdfMagic>>)
         => response = HttpError(400, <<"Invalid PDF file">>)
    /\ (request.endpoint = "generate_updated_resume"
          /\ request.file_id \notin DOMAIN txt_files)
         => response = HttpError(404, <<"Resume not found">>)
    /\ (request.endpoint = "download_resume"
          /\ request.file_id \notin DOMAIN pdf_files)
         => response = HttpError(404, <<"File not found">>)

\* C15: after generate_updated_resume answers success with file_id F the
\* optimized PDF is at temp/F.pdf, and a download of an optimized PDF that
\* is there returns that file
C15_OptimizedPdfDownloadable ==
  pc = "responded" =>
    /\ (request.endpoint = "generate_updated_resume"
          /\ response.status = "success")
         => /\ response.file_id = request.file_id \o <<Optimized>>
            /\ response.file_id \in DOMAIN pdf_files
            /\ pdf_files[response.file_id] = story
    /\ (request.endpoint = "download_resume"
          /\ request.file_id \in DOMAIN pdf_files
          /\ request.file_id[Len(request.file_id)] = Optimized)
         => response = FileResponse(pdf_files[request.file_id])

====
